---- MODULE Spec2Model ----
(***************************************************************************)
(* The Bliz tracking script: session identity resolution at script load,   *)
(* the click / submit / page-view listeners, and the XMLHttpRequest        *)
(* transport.  Two revisions of the script are modelled side by side:      *)
(*   "v12"  src/snippet.js          (Bliz Tracking Script v1.2)            *)
(*   "v13"  src/unnamed/part_001    (Bliz Tracking Script v1.3, latched    *)
(*                                   page-view tracking)                   *)
(*                                                                         *)
(* A JavaScript string is a sequence of tokens.  The tokens "&", "=", "%"  *)
(* and " " are the characters of that name; every other token is a piece   *)
(* of text holding none of them (and no hexadecimal digit after a "%"),    *)
(* so that every "%" of a string is a malformed percent escape.            *)
(***************************************************************************)
EXTENDS Integers, Sequences, FiniteSets, TLC

VARIABLES
    rev,                \* which revision of the script the page embeds
    hasURLSearchParams, \* window.URLSearchParams is defined
    storageMode,        \* what window.localStorage does in this browser
    search,             \* window.location.search, without the leading "?"
    page,               \* the host page (its elements, forms and paths)
    xhrThrows,          \* building a request throws in this browser
    storedAtLoad,       \* localStorage["bliz_session_id"] when the script ran
    keyAtLoad,          \* the data-key attribute when the script ran
    dataKey,            \* data-key of the element bliz-snippet (NULL: none)
    readyState,         \* document.readyState
    pathname,           \* window.location.pathname
    stored,             \* localStorage["bliz_session_id"] (NULL: no such key)
    blizSessionId,      \* window.blizSessionId (UNDEFINED: never assigned)
    phase,              \* "start": script not run yet, "ready", "crashed"
    initResult,         \* what init() returned (NoResult before / on a throw)
    pageViewTracked,    \* the view latch of v13
    timer500,           \* the 500 ms fallback timeout is pending
    timers100,          \* number of pending 100 ms popstate timeouts
    requests,           \* payloads handed to sendEventToAPI, in order
    log,                \* every record built by createEvent, in order
    raised,             \* an exception escaped a handler into the host page
    clicks,             \* click and submit occurrences so far
    popstates,          \* popstate occurrences so far
    apiCalls,           \* BlizTracker.trackPageView() calls so far
    otherStores,        \* stores by other pages of the origin so far
    keyChanges          \* changes of the data-key attribute after the load

vars == << rev, hasURLSearchParams, storageMode, search, page, xhrThrows,
           storedAtLoad, keyAtLoad, dataKey, readyState,
           pathname, stored, blizSessionId, phase, initResult,
           pageViewTracked, timer500, timers100, requests, log, raised,
           clicks, popstates, apiCalls, otherStores, keyChanges >>

----------------------------------------------------------------------------
(* Bounds of the model *)

\* clicks, submits, popstates, BlizTracker calls, stores by other pages and
\* changes of the data-key attribute
MaxOps == 2
\* segments of a query string
MaxParams == 2
\* spaces around the text of an element
MaxPad == 1

----------------------------------------------------------------------------
(* JavaScript values *)

NULL == << "<null>" >>
UNDEFINED == << "<undefined>" >>
NoResult == [initialized |-> FALSE, sessionId |-> NULL, stored |-> FALSE]

\* ToBoolean of a string-or-null-or-undefined value
Truthy(v) == v \notin { NULL, UNDEFINED, << >> }

\* a || b
Or(a, b) == IF Truthy(a) THEN a ELSE b

Rep(tok, n) == [ i \in 1..n |-> tok ]

\* index of the first occurrence of token sep in s, 0 when there is none
IndexOf(s, sep) ==
    IF \E i \in 1..Len(s) : s[i] = sep
    THEN CHOOSE i \in 1..Len(s) : s[i] = sep /\ \A j \in 1..(i-1) : s[j] # sep
    ELSE 0

\* String.prototype.split(sep) for a one-character separator
RECURSIVE Split(_, _)
Split(s, sep) ==
    LET i == IndexOf(s, sep) IN
    IF i = 0 THEN << s >>
    ELSE << SubSeq(s, 1, i - 1) >> \o Split(SubSeq(s, i + 1, Len(s)), sep)

\* String.prototype.substring(0, n)
Substring0(s, n) == SubSeq(s, 1, IF Len(s) < n THEN Len(s) ELSE n)

\* String.prototype.trim()
RECURSIVE TrimLeft(_)
TrimLeft(s) == IF s # << >> /\ Head(s) = " " THEN TrimLeft(Tail(s)) ELSE s
RECURSIVE TrimRight(_)
TrimRight(s) ==
    IF s # << >> /\ s[Len(s)] = " " THEN TrimRight(SubSeq(s, 1, Len(s) - 1)) ELSE s
Trim(s) == TrimRight(TrimLeft(s))

\* String.prototype.replace(/\//g, "")
NotSlash(tok) == tok # "/"
StripSlashes(s) == SelectSeq(s, NotSlash)

\* decodeURIComponent: [threw, val].  A malformed escape throws URIError;
\* the argument undefined is converted to the string "undefined".
decodeURIComponent(s) ==
    IF s = UNDEFINED THEN [threw |-> FALSE, val |-> << "undefined" >>]
    ELSE IF \E i \in 1..Len(s) : s[i] = "%" THEN [threw |-> TRUE, val |-> NULL]
    ELSE [threw |-> FALSE, val |-> s]

----------------------------------------------------------------------------
(* Configuration *)

CONFIG ==
    [ sessionIdParam |-> << "session_id" >>,
      events |-> [ PAGE_VIEW |-> "PAGE_VIEW", LINK_CLICK |-> "LINK_CLICK",
                   BUTTON_CLICK |-> "BUTTON_CLICK", FORM_SUBMIT |-> "FORM_SUBMIT" ] ]

\* CONFIG.debug of v12 while the script loads (BlizTracker.debug exists only
\* after the load)
ConfigDebugAtLoad == TRUE

\* the truncation length of substring(0, 100)
LabelLimit == 100

----------------------------------------------------------------------------
(* Parameter extraction *)

\* the application/x-www-form-urlencoded decoding URLSearchParams applies to
\* a name or a value: "+" becomes a space, a malformed "%" is kept as it is
FormDecode(s) == [ i \in 1..Len(s) |-> IF s[i] = "+" THEN " " ELSE s[i] ]

\* URLSearchParams.get(param) over the segments segs: the value of the first
\* non-empty segment whose name is param, null when there is none.  A segment
\* is cut at its FIRST "="; without "=" its value is the empty string.
RECURSIVE SearchParamsGet(_, _)
SearchParamsGet(segs, param) ==
    IF segs = << >> THEN NULL
    ELSE LET seg == Head(segs)
             i == IndexOf(seg, "=")
             name == IF i = 0 THEN seg ELSE SubSeq(seg, 1, i - 1)
             value == IF i = 0 THEN << >> ELSE SubSeq(seg, i + 1, Len(seg))
         IN  IF seg # << >> /\ FormDecode(name) = param
             THEN FormDecode(value)
             ELSE SearchParamsGet(Tail(segs), param)

\* getQueryParam: new URLSearchParams(location.search).get(param) || null
getQueryParam(param) == Or(SearchParamsGet(Split(search, "&"), param), NULL)

\* the for loop of getQueryParamLegacy over params: [threw, val]
RECURSIVE LegacyLoop(_, _)
LegacyLoop(params, param) ==
    IF params = << >> THEN [threw |-> FALSE, val |-> NULL]
    ELSE LET pair == Split(Head(params), "=")
             name == decodeURIComponent(pair[1])
             second == IF Len(pair) >= 2 THEN pair[2] ELSE UNDEFINED
         IN  IF name.threw THEN name
             ELSE IF name.val = param THEN decodeURIComponent(second)
             ELSE LegacyLoop(Tail(params), param)

getQueryParamLegacy(param) == LegacyLoop(Split(search, "&"), param)

\* getSessionIdFromUrl: [threw, val]
getSessionIdFromUrl ==
    LET modern == IF hasURLSearchParams THEN getQueryParam(CONFIG.sessionIdParam)
                  ELSE NULL
    IN  IF Truthy(modern) THEN [threw |-> FALSE, val |-> modern]
        ELSE getQueryParamLegacy(CONFIG.sessionIdParam)

----------------------------------------------------------------------------
(* Identity store.  storageMode:                                           *)
(*   "ok"      every call works                                            *)
(*   "quota"   setItem throws (quota exceeded), getItem works              *)
(*   "throws"  every access throws                                         *)
(*   "absent"  window.localStorage (and sessionStorage) is undefined       *)
(* v12 tests window.sessionStorage and then uses window.localStorage; the  *)
(* two facilities are present or absent together here.                     *)

\* storeSessionId(sessionId): [ok, stored], stored being the storage after it
storeSessionId(sessionId) ==
    IF storageMode = "ok" THEN [ok |-> TRUE, stored |-> sessionId]
    ELSE [ok |-> FALSE, stored |-> stored]

\* getStoredSessionId() when the storage holds st
getStoredSessionIdOf(st) ==
    IF storageMode \in {"ok", "quota"} THEN st ELSE NULL

getStoredSessionId == getStoredSessionIdOf(stored)

----------------------------------------------------------------------------
(* Session resolver *)

\* init(): [threw, blizSessionId, stored, result]
init ==
    LET url == getSessionIdFromUrl IN
    IF url.threw
    THEN [threw |-> TRUE, blizSessionId |-> blizSessionId, stored |-> stored,
          result |-> NoResult]
    ELSE IF Truthy(url.val)
    THEN LET st == storeSessionId(url.val) IN
         [threw |-> FALSE, blizSessionId |-> url.val, stored |-> st.stored,
          result |-> [initialized |-> TRUE, sessionId |-> url.val, stored |-> st.ok]]
    ELSE LET storedSessionId == getStoredSessionId IN
         [threw |-> FALSE,
          blizSessionId |-> IF Truthy(storedSessionId) /\ (rev = "v13" \/ ConfigDebugAtLoad)
                            THEN storedSessionId ELSE blizSessionId,
          stored |-> stored,
          result |-> [initialized |-> TRUE, sessionId |-> storedSessionId,
                      stored |-> FALSE]]

----------------------------------------------------------------------------
(* The host page.  The text of an element and a path are made of           *)
(* one-character tokens, so that substring(0, 100) counts characters.      *)

BuyNow == << "B", "u", "y", " ", "N", "o", "w" >>

\* a visible text of n characters: lead spaces, letters, lead spaces (only
\* spaces when n is too small for a letter between them)
Text(lead, n) ==
    IF n <= 2 * lead THEN Rep(" ", n)
    ELSE Rep(" ", lead) \o Rep("x", n - 2 * lead) \o Rep(" ", lead)

LongTextLen == 2 * LabelLimit + 50

TextLengths == {0, 1, LabelLimit, LongTextLen}

Href(n) == Rep("h", n)

\* the elements a click can land on: [tag, innerText, href]
Elements(pg) ==
    IF pg = "shop"
    THEN { [tag |-> "a", innerText |-> BuyNow, href |-> Href(1)],
           [tag |-> "button", innerText |-> << >>, href |-> UNDEFINED],
           [tag |-> "div", innerText |-> Text(0, 1), href |-> UNDEFINED] }
    ELSE { [tag |-> "button", innerText |-> Text(lead, n), href |-> UNDEFINED] :
               lead \in 0..MaxPad, n \in TextLengths }
         \cup { [tag |-> "a", innerText |-> Text(0, n), href |-> Href(1)] :
                    n \in TextLengths \ {0} }
         \cup { [tag |-> "a", innerText |-> << >>, href |-> Href(n)] :
                    n \in {0, LabelLimit, LabelLimit + 1} }

\* the forms that can be submitted: [name, id]
Forms(pg) ==
    IF pg = "shop"
    THEN { [name |-> << >>, id |-> << >>] }
    ELSE { [name |-> Rep("n", n), id |-> Rep("i", k)] :
               n \in {0, LabelLimit + 1}, k \in {0, 1} }

\* the paths of the site
Paths(pg) ==
    IF pg = "shop" THEN { << "/", "c" >> }
    ELSE { << "/" >>, << "/" >> \o Rep("p", LabelLimit + 1) }

----------------------------------------------------------------------------
(* Event normalizer and transport.  A handler works on the record m of the *)
(* script's mutable state and returns the record after it.                 *)

Cur ==
    [ blizSessionId |-> blizSessionId, stored |-> stored,
      pageViewTracked |-> pageViewTracked, timers100 |-> timers100,
      requests |-> requests, log |-> log, threw |-> FALSE ]

\* getPathname()
getPathname == pathname

\* getTimestamp(): the logical time, one tick per record built
getTimestamp(m) == Len(m.log) + 1

\* createEvent(action, label, pathname)
createEvent(m, action, label, path) ==
    [ action |-> IF action = "" THEN "N/A" ELSE action,
      label |-> Or(label, << "N/A" >>),
      pathname |-> Or(path, getPathname),
      timestamp |-> getTimestamp(m) ]

\* getApiKeyFromScript(): the data-key attribute of the element bliz-snippet,
\* null without the element or the attribute
getApiKeyFromScript == dataKey

\* the Authorization header sendEventToAPI sets for apiKey (NULL: none);
\* nothing leaves the browser when building the request throws
AuthorizationOf(apiKey, buildThrows) ==
    IF buildThrows \/ ~Truthy(apiKey) THEN NULL ELSE << "Bearer " >> \o apiKey

\* sendEventToAPI(payload) with a catch that lets the exception escape
sendEventToAPI_NoCatch(m, payload, buildThrows) ==
    [ m EXCEPT !.requests = Append(@, [ payload |-> payload,
                   status |-> IF buildThrows THEN "exception" ELSE "pending",
                   authorization |-> AuthorizationOf(getApiKeyFromScript, buildThrows) ]),
               !.threw = buildThrows ]

\* sendEventToAPI(payload) that puts the new request before the earlier ones
sendEventToAPI_Prepend(m, payload, buildThrows) ==
    [ m EXCEPT !.requests = << [ payload |-> payload,
                   status |-> IF buildThrows THEN "exception" ELSE "pending",
                   authorization |-> AuthorizationOf(getApiKeyFromScript, buildThrows) ] >>
                   \o @ ]

\* sendEventToAPI(payload): one XMLHttpRequest per call; buildThrows: the
\* try block (getApiKeyFromScript, open, setRequestHeader, JSON.stringify,
\* send) throws, which the catch swallows
sendEventToAPI(m, payload, buildThrows) ==
    [ m EXCEPT !.requests = Append(@, [ payload |-> payload,
                   status |-> IF buildThrows THEN "exception" ELSE "pending",
                   authorization |-> AuthorizationOf(getApiKeyFromScript, buildThrows) ]) ]

\* processEvent(event) without the session check
processEvent_NoGate(m, event, buildThrows) ==
    sendEventToAPI(m, [ session_id |-> Or(m.blizSessionId, getStoredSessionIdOf(m.stored)),
                        action |-> event.action, label |-> event.label,
                        pathname |-> event.pathname, timestamp |-> event.timestamp ],
                   buildThrows)

\* processEvent(event) that also sends the records it dropped earlier, once
\* an identity is there
RECURSIVE Flush(_, _, _, _)
Flush(m, sessionId, k, buildThrows) ==
    IF k > Len(m.log) THEN m
    ELSE LET e == m.log[k]
             sent == \E i \in 1..Len(m.requests) :
                         m.requests[i].payload.timestamp = e.timestamp
             m1 == IF sent THEN m
                   ELSE sendEventToAPI(m, [ session_id |-> sessionId, action |-> e.action,
                                            label |-> e.label, pathname |-> e.pathname,
                                            timestamp |-> e.timestamp ], buildThrows)
         IN  Flush(m1, sessionId, k + 1, buildThrows)

processEvent_Queued(m, event, buildThrows) ==
    LET sessionId == Or(m.blizSessionId, getStoredSessionIdOf(m.stored)) IN
    IF ~Truthy(sessionId) THEN m ELSE Flush(m, sessionId, 1, buildThrows)

\* processEvent(event) that prefers the stored identifier to the process-wide
\* identity
processEvent_StoredFirst(m, event, buildThrows) ==
    LET sessionId == Or(getStoredSessionIdOf(m.stored), m.blizSessionId) IN
    IF ~Truthy(sessionId) THEN m
    ELSE sendEventToAPI(m, [ session_id |-> sessionId, action |-> event.action,
                             label |-> event.label, pathname |-> event.pathname,
                             timestamp |-> event.timestamp ],
                        buildThrows)

\* processEvent(event)
processEvent(m, event, buildThrows) ==
    LET sessionId == Or(m.blizSessionId, getStoredSessionIdOf(m.stored)) IN
    IF ~Truthy(sessionId) THEN m
    ELSE sendEventToAPI(m, [ session_id |-> sessionId, action |-> event.action,
                             label |-> event.label, pathname |-> event.pathname,
                             timestamp |-> event.timestamp ],
                        buildThrows)

\* a non-empty session identity is resolvable in m
Resolvable(m) ==
    \/ m.blizSessionId \notin {NULL, UNDEFINED, << >>}
    \/ storageMode \in {"ok", "quota"} /\ m.stored \notin {NULL, << >>}

\* the place of an occurrence among the occurrences of the page: the n-th
\* popstate is at 2n, an occurrence of any other kind is at 2n + 1 when n
\* popstates have fired before it
DirectOccurrence == 2 * popstates + 1
PopstateOccurrence(n) == 2 * n

\* createEvent(action, label) followed by processEvent(event), as every
\* listener does; the record built is noted in the log, with the place of
\* the occurrence whose listener is running
Emit(m, action, label, buildThrows) ==
    LET event == createEvent(m, action, label, UNDEFINED)
        noted == [ m EXCEPT !.log = Append(@, [ timestamp |-> event.timestamp,
                                                 action |-> event.action,
                                                 label |-> event.label,
                                                 pathname |-> event.pathname,
                                                 resolvable |-> Resolvable(m),
                                                 occ |-> DirectOccurrence ]) ]
    IN  processEvent(noted, event, buildThrows)

\* the label a click on el gets
ClickLabel(el) ==
    IF el.tag = "button"
    THEN IF Truthy(el.innerText) THEN Trim(Substring0(el.innerText, LabelLimit))
         ELSE << "button" >>
    ELSE IF Truthy(el.innerText) THEN Trim(Substring0(el.innerText, LabelLimit))
         ELSE Or(el.href, << "link" >>)

\* the click listener with the two action kinds exchanged
onClick_Swapped(m, el, buildThrows) ==
    IF el.tag # "button" /\ el.tag # "a" THEN m
    ELSE Emit(m, IF el.tag = "button" THEN CONFIG.events.LINK_CLICK
                 ELSE CONFIG.events.BUTTON_CLICK,
              ClickLabel(el), buildThrows)

\* the click listener without the test of the tag: any other element is
\* handled as a link
onClick_AnyTag(m, el, buildThrows) ==
    Emit(m, IF el.tag = "button" THEN CONFIG.events.BUTTON_CLICK
            ELSE CONFIG.events.LINK_CLICK,
         ClickLabel(el), buildThrows)

\* the click listener of setupClickListener
onClick(m, el, buildThrows) ==
    IF el.tag # "button" /\ el.tag # "a" THEN m
    ELSE Emit(m, IF el.tag = "button" THEN CONFIG.events.BUTTON_CLICK
                 ELSE CONFIG.events.LINK_CLICK,
              ClickLabel(el), buildThrows)

\* the submit listener, resetting the view latch as well
onSubmit_Resets(m, form, buildThrows) ==
    [ Emit(m, CONFIG.events.FORM_SUBMIT,
           IF rev = "v12" THEN Or(form.name, Or(form.id, << "form_submit" >>))
           ELSE << "form_submit" >>, buildThrows)
        EXCEPT !.pageViewTracked = FALSE ]

\* the submit listener of setupFormListener
onSubmit(m, form, buildThrows) ==
    IF rev = "v12"
    THEN Emit(m, CONFIG.events.FORM_SUBMIT,
              Or(form.name, Or(form.id, << "form_submit" >>)), buildThrows)
    ELSE Emit(m, CONFIG.events.FORM_SUBMIT, << "form_submit" >>, buildThrows)

\* the label of a page view
ViewLabel == Or(Substring0(StripSlashes(getPathname), LabelLimit), << "home" >>)

\* trackPageView() that does not set the latch
trackPageView_NoLatch(m, buildThrows) ==
    IF m.pageViewTracked THEN m
    ELSE Emit(m, CONFIG.events.PAGE_VIEW, ViewLabel, buildThrows)

\* trackPageView() without the early return on a fired latch
trackPageView_NoGuard(m, buildThrows) ==
    [ Emit(m, CONFIG.events.PAGE_VIEW, ViewLabel, buildThrows)
        EXCEPT !.pageViewTracked = TRUE ]

\* trackPageView() of v13
trackPageView(m, buildThrows) ==
    IF m.pageViewTracked THEN m
    ELSE [ Emit(m, CONFIG.events.PAGE_VIEW, ViewLabel, buildThrows)
             EXCEPT !.pageViewTracked = TRUE ]

\* the guarded listeners with the test inverted: if (pageViewTracked) ...
trackIfUntracked_Inverted(m, buildThrows) ==
    IF m.pageViewTracked THEN trackPageView(m, buildThrows) ELSE m

\* the guarded listeners of v13: if (!pageViewTracked) trackPageView()
trackIfUntracked(m, buildThrows) ==
    IF ~m.pageViewTracked THEN trackPageView(m, buildThrows) ELSE m

\* the DOMContentLoaded listener of v12: an unlatched page view
onDOMContentLoaded12(m, buildThrows) ==
    Emit(m, CONFIG.events.PAGE_VIEW, ViewLabel, buildThrows)

\* the popstate listener of v13 without the reset of the latch
onPopstate_NoReset(m) == [ m EXCEPT !.timers100 = @ + 1 ]

\* the popstate listener of v13
onPopstate(m) == [ m EXCEPT !.pageViewTracked = FALSE, !.timers100 = @ + 1 ]

\* the callback of setTimeout(trackPageView, 100): the timeouts expire in
\* the order of their popstates, so the one expiring belongs to popstate
\* number popstates - timers100 + 1, and a record it builds is the record of
\* that occurrence
onTimeout100(m, buildThrows) ==
    LET m1 == trackPageView(m, buildThrows)
        n == Len(m1.log)
    IN  [ m1 EXCEPT !.timers100 = @ - 1,
                    !.log = IF n > Len(m.log)
                            THEN [ @ EXCEPT ![n].occ =
                                       PopstateOccurrence(popstates - m.timers100 + 1) ]
                            ELSE @ ]

\* BlizTracker.trackPageView() of v13
apiTrackPageView(m, buildThrows) ==
    trackPageView([ m EXCEPT !.pageViewTracked = FALSE ], buildThrows)

\* BlizTracker.getSessionId(): window.blizSessionId || getStoredSessionId()
getSessionId(m) == Or(m.blizSessionId, getStoredSessionIdOf(m.stored))

\* BlizTracker.isActive() that looks at the process-wide identity only
isActive_IdentityOnly(m) == Truthy(m.blizSessionId)

\* BlizTracker.isActive(): !!(window.blizSessionId || getStoredSessionId())
isActive(m) == Truthy(Or(m.blizSessionId, getStoredSessionIdOf(m.stored)))

----------------------------------------------------------------------------
(* Initial states: the moment before the script runs *)

Ids == { << "abc123" >>, << "xyz789" >> }

\* values of the data-key attribute
Key1 == << "key1" >>
Key2 == << "key2" >>

Sid == CONFIG.sessionIdParam

\* one segment of a query string: a name, or a name, "=" and a value
Segments ==
    LET names == { Sid, << "%" >> }
        values == { << >>, << "abc123" >> }
    IN  names \cup { n \o << "=" >> \o v : n \in names, v \in values }

\* the query strings of at most n segments joined by "&"
RECURSIVE Queries(_)
Queries(n) ==
    IF n = 0 THEN { << >> }
    ELSE LET shorter == Queries(n - 1) IN
         shorter \cup Segments
                 \cup { q \o << "&" >> \o seg : q \in shorter \ { << >> }, seg \in Segments }

InitCommon ==
    /\ storedAtLoad = stored
    /\ blizSessionId = UNDEFINED
    /\ phase = "start"
    /\ initResult = NoResult
    /\ pageViewTracked = FALSE
    /\ timer500 = FALSE
    /\ timers100 = 0
    /\ requests = << >>
    /\ log = << >>
    /\ raised = FALSE
    /\ clicks = 0
    /\ popstates = 0
    /\ apiCalls = 0
    /\ otherStores = 0
    /\ keyChanges = 0
    /\ keyAtLoad = dataKey

\* any browser, on the shop page, with the usual query strings
\* (a store that cannot be read starts empty: its content is never seen)
Init ==
    /\ rev \in {"v12", "v13"}
    /\ hasURLSearchParams = TRUE
    /\ storageMode \in {"ok", "quota", "throws", "absent"}
    /\ search \in { << >>, Sid \o << "=", "abc123" >>, << "%" >> }
    /\ page = "shop"
    /\ xhrThrows \in BOOLEAN
    /\ readyState \in {"loading", "interactive", "complete"}
    /\ pathname = << "/" >>
    /\ stored \in IF storageMode \in {"ok", "quota"}
                  THEN {NULL, << "xyz789" >>} ELSE {NULL}
    /\ dataKey = Key1
    /\ InitCommon

\* v13 on any query string of at most MaxParams segments, with and without
\* URLSearchParams, while the document is still loading
InitUrl ==
    /\ rev = "v13"
    /\ hasURLSearchParams \in BOOLEAN
    /\ storageMode \in {"ok", "throws"}
    /\ search \in Queries(MaxParams)
    /\ page = "shop"
    /\ xhrThrows = FALSE
    /\ readyState = "loading"
    /\ pathname = << "/" >>
    /\ stored \in {NULL, << "xyz789" >>}
    /\ dataKey = Key1
    /\ InitCommon

\* the page with long and padded texts, hrefs, form names and paths
InitLabels ==
    /\ rev \in {"v12", "v13"}
    /\ hasURLSearchParams = TRUE
    /\ storageMode = "ok"
    /\ search = Sid \o << "=", "abc123" >>
    /\ page = "labels"
    /\ xhrThrows = FALSE
    /\ readyState = "loading"
    /\ pathname \in Paths("labels")
    /\ stored = NULL
    /\ dataKey = Key1
    /\ InitCommon

\* v13 with the identifier in the URL or in the store, for every readiness
\* of the document
InitLive ==
    /\ rev = "v13"
    /\ hasURLSearchParams = TRUE
    /\ storageMode = "ok"
    /\ search \in { << >>, Sid \o << "=", "abc123" >> }
    /\ page = "shop"
    /\ xhrThrows = FALSE
    /\ readyState \in {"loading", "interactive", "complete"}
    /\ pathname = << "/" >>
    /\ stored = IF search = << >> THEN << "xyz789" >> ELSE NULL
    /\ dataKey = Key1
    /\ InitCommon

\* a page whose script element has, or has not, a data-key attribute
InitKey ==
    /\ rev \in {"v12", "v13"}
    /\ hasURLSearchParams = TRUE
    /\ storageMode = "ok"
    /\ search = Sid \o << "=", "abc123" >>
    /\ page = "shop"
    /\ xhrThrows \in BOOLEAN
    /\ readyState \in {"loading", "complete"}
    /\ pathname = << "/" >>
    /\ stored = NULL
    /\ dataKey \in {NULL, Key1}
    /\ InitCommon

----------------------------------------------------------------------------
(* Actions *)

Commit(m) ==
    /\ blizSessionId' = m.blizSessionId
    /\ stored' = m.stored
    /\ pageViewTracked' = m.pageViewTracked
    /\ timers100' = m.timers100
    /\ requests' = m.requests
    /\ log' = m.log
    /\ raised' = (raised \/ m.threw)

Env == << rev, hasURLSearchParams, storageMode, search, page, xhrThrows,
         storedAtLoad, keyAtLoad >>

\* the occurrences the bound MaxOps counts
Ops == clicks + popstates + apiCalls + otherStores + keyChanges

\* the script runs: init(), setupEventListeners(), window.BlizTracker = ...
LoadScript ==
    /\ phase = "start"
    /\ LET r == init IN
       IF r.threw
       THEN /\ phase' = "crashed"
            /\ raised' = TRUE
            /\ UNCHANGED << blizSessionId, stored, initResult, pageViewTracked,
                            timer500, timers100, requests, log >>
       ELSE LET m0 == [ Cur EXCEPT !.blizSessionId = r.blizSessionId,
                                   !.stored = r.stored ]
                m1 == IF rev = "v13" /\ readyState # "loading"
                      THEN trackPageView(m0, xhrThrows) ELSE m0
            IN  /\ Commit(m1)
                /\ phase' = "ready"
                /\ initResult' = r.result
                /\ timer500' = (rev = "v13")
    /\ UNCHANGED << Env, dataKey, keyChanges, readyState, pathname, clicks, popstates, apiCalls, otherStores >>

\* a click lands on element el
Click(el) ==
    /\ phase # "start"
    /\ Ops < MaxOps
    /\ clicks' = clicks + 1
    /\ Commit(IF phase = "ready" THEN onClick(Cur, el, xhrThrows) ELSE Cur)
    /\ UNCHANGED << Env, dataKey, keyChanges, readyState, pathname, phase, initResult, timer500,
                    popstates, apiCalls, otherStores >>

\* a form is submitted
Submit(form) ==
    /\ phase # "start"
    /\ Ops < MaxOps
    /\ clicks' = clicks + 1
    /\ Commit(IF phase = "ready" THEN onSubmit(Cur, form, xhrThrows) ELSE Cur)
    /\ UNCHANGED << Env, dataKey, keyChanges, readyState, pathname, phase, initResult, timer500,
                    popstates, apiCalls, otherStores >>

\* the document fires DOMContentLoaded
DOMContentLoaded ==
    /\ phase # "start"
    /\ readyState = "loading"
    /\ readyState' = "interactive"
    /\ Commit(IF phase # "ready" THEN Cur
                ELSE IF rev = "v13" THEN trackPageView(Cur, xhrThrows)
                ELSE onDOMContentLoaded12(Cur, xhrThrows))
    /\ UNCHANGED << Env, dataKey, keyChanges, pathname, phase, initResult, timer500, clicks,
                    popstates, apiCalls, otherStores >>

\* the window fires load
WindowLoad ==
    /\ phase # "start"
    /\ readyState = "interactive"
    /\ readyState' = "complete"
    /\ Commit(IF phase = "ready" /\ rev = "v13"
                THEN trackIfUntracked(Cur, xhrThrows) ELSE Cur)
    /\ UNCHANGED << Env, dataKey, keyChanges, pathname, phase, initResult, timer500, clicks,
                    popstates, apiCalls, otherStores >>

\* the theme fires shopify:section:load
ShopifySectionLoad ==
    /\ phase = "ready"
    /\ Commit(IF rev = "v13" THEN trackIfUntracked(Cur, xhrThrows) ELSE Cur)
    /\ UNCHANGED << Env, dataKey, keyChanges, readyState, pathname, phase, initResult, timer500,
                    clicks, popstates, apiCalls, otherStores >>

\* the theme fires page:loaded
PageLoaded ==
    /\ phase = "ready"
    /\ Commit(IF rev = "v13" THEN trackIfUntracked(Cur, xhrThrows) ELSE Cur)
    /\ UNCHANGED << Env, dataKey, keyChanges, readyState, pathname, phase, initResult, timer500,
                    clicks, popstates, apiCalls, otherStores >>

\* the 500 ms fallback timeout expires
Timeout500 ==
    /\ phase = "ready"
    /\ timer500
    /\ timer500' = FALSE
    /\ Commit(trackIfUntracked(Cur, xhrThrows))
    /\ UNCHANGED << Env, dataKey, keyChanges, readyState, pathname, phase, initResult, clicks,
                    popstates, apiCalls, otherStores >>

\* a back / forward navigation to path: the window fires popstate
Popstate(path) ==
    /\ phase # "start"
    /\ Ops < MaxOps
    /\ popstates' = popstates + 1
    /\ pathname' = path
    /\ Commit(IF phase = "ready" /\ rev = "v13" THEN onPopstate(Cur) ELSE Cur)
    /\ UNCHANGED << Env, dataKey, keyChanges, readyState, phase, initResult, timer500, clicks, apiCalls, otherStores >>

\* a 100 ms timeout started by a popstate expires: trackPageView()
Timeout100 ==
    /\ phase = "ready"
    /\ timers100 > 0
    /\ Commit(onTimeout100(Cur, xhrThrows))
    /\ UNCHANGED << Env, dataKey, keyChanges, readyState, pathname, phase, initResult, timer500,
                    clicks, popstates, apiCalls, otherStores >>

\* the host page calls BlizTracker.trackPageView() (v13 only)
ApiTrackPageView ==
    /\ phase = "ready"
    /\ rev = "v13"
    /\ Ops < MaxOps
    /\ apiCalls' = apiCalls + 1
    /\ Commit(apiTrackPageView(Cur, xhrThrows))
    /\ UNCHANGED << Env, dataKey, keyChanges, readyState, pathname, phase, initResult, timer500,
                    clicks, popstates, otherStores >>

Outcomes == {"2xx", "500", "0", "timeout"}

\* the callbacks of request i issue the request again after a failure
onOutcome_Retry(reqs, i, outcome) ==
    IF outcome = "2xx" THEN [ reqs EXCEPT ![i].status = "settled" ]
    ELSE Append([ reqs EXCEPT ![i].status = "settled" ],
                [ payload |-> reqs[i].payload, status |-> "pending",
                  authorization |-> reqs[i].authorization ])

\* onreadystatechange / onerror / ontimeout of request i: every branch is
\* empty, whatever the outcome; the request is over
onOutcome(reqs, i, outcome) == [ reqs EXCEPT ![i].status = "settled" ]

\* request i completes, with any of the outcomes.  The callbacks of a
\* request touch nothing but that request, so the completions of different
\* requests commute: they are taken oldest first.
Response(i) ==
    /\ i \in 1..Len(requests)
    /\ requests[i].status = "pending"
    /\ \A j \in 1..(i - 1) : requests[j].status # "pending"
    /\ requests' \in { onOutcome(requests, i, outcome) : outcome \in Outcomes }
    /\ UNCHANGED << Env, dataKey, keyChanges, readyState, pathname, stored, blizSessionId, phase,
                    initResult, pageViewTracked, timer500, timers100, log,
                    raised, clicks, popstates, apiCalls, otherStores >>

\* another page of the same origin loads the script with another identifier
\* in its URL and stores it
OtherPageStores(id) ==
    /\ phase # "start"
    /\ storageMode = "ok"
    /\ stored # id
    /\ Ops < MaxOps
    /\ otherStores' = otherStores + 1
    /\ stored' = id
    /\ UNCHANGED << Env, dataKey, keyChanges, readyState, pathname, blizSessionId, phase, initResult,
                    pageViewTracked, timer500, timers100, requests, log,
                    raised, clicks, popstates, apiCalls >>

\* a script of the host page gives the element bliz-snippet another data-key
HostChangesKey(key) ==
    /\ phase # "start"
    /\ dataKey # key
    /\ Ops < MaxOps
    /\ keyChanges' = keyChanges + 1
    /\ dataKey' = key
    /\ UNCHANGED << Env, readyState, pathname, stored, blizSessionId, phase,
                    initResult, pageViewTracked, timer500, timers100, requests,
                    log, raised, clicks, popstates, apiCalls, otherStores >>

Next ==
    \/ LoadScript
    \/ \E el \in Elements(page) : Click(el)
    \/ \E form \in Forms(page) : Submit(form)
    \/ DOMContentLoaded
    \/ WindowLoad
    \/ ShopifySectionLoad
    \/ PageLoaded
    \/ Timeout500
    \/ \E path \in Paths(page) : Popstate(path)
    \/ Timeout100
    \/ ApiTrackPageView
    \/ \E i \in 1..Len(requests) : Response(i)
    \/ OtherPageStores(<< "xyz789" >>)
    \/ HostChangesKey(Key2)

Spec == Init /\ [][Next]_vars

SpecUrl == InitUrl /\ [][Next]_vars

SpecLabels == InitLabels /\ [][Next]_vars

SpecKey == InitKey /\ [][Next]_vars

\* the 500 ms fallback timeout, once set, expires
SpecLive == InitLive /\ [][Next]_vars /\ WF_vars(Timeout500)

----------------------------------------------------------------------------
(* Properties *)

Falsy == { NULL, UNDEFINED, << >> }

\* positions of the requests issued for the record built at time t
RequestsFor(t) == { i \in 1..Len(requests) : requests[i].payload.timestamp = t }

\* the records of one action kind built so far, and the requests for them
RecordsOf(action) == { k \in 1..Len(log) : log[k].action = action }
RequestsOf(action) == { i \in 1..Len(requests) : requests[i].payload.action = action }

\* the query string has a segment whose name is session_id
HasParam ==
    \E k \in 1..Len(Split(search, "&")) :
        LET seg == Split(search, "&")[k] IN
        seg = Sid \/ (Len(seg) > Len(Sid) /\ SubSeq(seg, 1, Len(Sid) + 1) = Sid \o << "=" >>)

\* C1: every request handed to the transport carries a non-empty session_id,
\* and a record built while no non-empty identity was resolvable (neither
\* window.blizSessionId nor the identity store) has no request and is kept
\* nowhere: the requests are exactly the records built while an identity was
\* resolvable, one each.
C1_OnlyWithIdentity ==
    /\ \A i \in 1..Len(requests) : requests[i].payload.session_id \notin Falsy
    /\ \A k \in 1..Len(log) :
         Cardinality(RequestsFor(log[k].timestamp)) = IF log[k].resolvable THEN 1 ELSE 0
    /\ \A i \in 1..Len(requests) :
         \E k \in 1..Len(log) : log[k].timestamp = requests[i].payload.timestamp

\* a record was dropped for want of an identity, and a later one was sent
C1_Witness ==
    \E k \in 1..Len(log) :
        /\ ~log[k].resolvable
        /\ \E i \in 1..Len(requests) : requests[i].payload.timestamp > log[k].timestamp

\* the value of the first segment of the query string named session_id
\* (empty for a segment without "=")
FirstParamValue ==
    LET segs == Split(search, "&")
        named(seg) == seg = Sid \/ (Len(seg) > Len(Sid)
                                     /\ SubSeq(seg, 1, Len(Sid) + 1) = Sid \o << "=" >>)
        k == CHOOSE k \in 1..Len(segs) :
                 named(segs[k]) /\ \A j \in 1..(k - 1) : ~named(segs[j])
    IN  IF segs[k] = Sid THEN << >> ELSE SubSeq(segs[k], Len(Sid) + 2, Len(segs[k]))

\* C2 (as claimed): for every query string with a session_id parameter, after
\* the load the process-wide identity is the value of that parameter (its
\* first occurrence), and when storage works the identity store returns it
\* too, until another page stores something else.
C2_UrlValueIsIdentity ==
    (phase # "start" /\ HasParam) =>
        /\ blizSessionId = FirstParamValue
        /\ (storageMode = "ok" /\ otherStores = 0) => getStoredSessionId = FirstParamValue

\* C3 (as claimed): for every query string without the session_id parameter,
\* with an identifier X readable in storage at load, after the load the
\* process-wide identity is X, init() reported stored = false, and storage
\* still holds X (until another page stores something).
C3_StoredIdentityKept ==
    (phase # "start" /\ ~HasParam /\ storageMode \in {"ok", "quota"}
       /\ storedAtLoad \notin Falsy) =>
        /\ blizSessionId = storedAtLoad
        /\ initResult = [initialized |-> TRUE, sessionId |-> storedAtLoad, stored |-> FALSE]
        /\ otherStores = 0 => stored = storedAtLoad

\* C4: for every query string without the session_id parameter and with no
\* stored value at load, the process-wide identity stays absent after the
\* load; and a record built while no identity was resolvable never gets a
\* request, whatever happens later (later events, an identity stored later
\* by another page, timers).
C4_DroppedNotQueued ==
    /\ (phase # "start" /\ ~HasParam /\ storedAtLoad = NULL) => blizSessionId = UNDEFINED
    /\ \A k \in 1..Len(log) : ~log[k].resolvable => RequestsFor(log[k].timestamp) = { }

\* no parameter and nothing stored at load; a record was dropped; another
\* page stored an identity afterwards, and a later record was sent with it
C4_Witness ==
    /\ phase = "ready" /\ ~HasParam /\ storedAtLoad = NULL /\ otherStores > 0
    /\ \E k \in 1..Len(log) :
         /\ ~log[k].resolvable
         /\ \E i \in 1..Len(requests) :
              /\ requests[i].payload.timestamp > log[k].timestamp
              /\ requests[i].payload.session_id = stored

ViewRecords == Cardinality(RecordsOf(CONFIG.events.PAGE_VIEW))
ViewRequests == Cardinality(RequestsOf(CONFIG.events.PAGE_VIEW))

\* C5: in v13, within one page load without popstate (and without a call of
\* BlizTracker.trackPageView), however the view triggers interleave, at most
\* one view record is built, and exactly one as soon as a trigger has run
\* (the immediate call, DOMContentLoaded, load, the custom events or the
\* 500 ms timeout); at most one view request is issued.
C5_OneViewPerLoad ==
    (rev = "v13" /\ phase = "ready" /\ popstates = 0 /\ apiCalls = 0) =>
        /\ ViewRecords <= 1
        /\ pageViewTracked <=> ViewRecords = 1
        /\ (readyState # "loading" \/ ~timer500) => ViewRecords = 1
        /\ ViewRequests <= 1

\* every trigger of the load has run and one view record exists
C5_Witness ==
    /\ rev = "v13" /\ phase = "ready" /\ popstates = 0 /\ apiCalls = 0
    /\ readyState = "complete" /\ ~timer500 /\ clicks > 0
    /\ ViewRecords = 1 /\ ViewRequests = 1

\* the steps that invoke the view path of v13
ViewTrigger ==
    \/ DOMContentLoaded
    \/ WindowLoad
    \/ ShopifySectionLoad
    \/ PageLoaded
    \/ Timeout500
    \/ Timeout100

\* C6: in v13, a popstate arriving while the latch is fired resets it (and
\* starts the delayed trackPageView), and a view trigger that runs while the
\* latch is unfired builds one further view record and fires the latch.
C6_PopstateRearms ==
    [][ (rev = "v13" /\ phase = "ready") =>
          /\ (pageViewTracked /\ popstates' = popstates + 1
                /\ \E path \in Paths(page) : Popstate(path)) =>
                (~pageViewTracked' /\ timers100' = timers100 + 1 /\ log' = log)
          /\ (~pageViewTracked /\ popstates' = popstates /\ clicks' = clicks
                /\ ViewTrigger) =>
                /\ pageViewTracked'
                /\ Len(log') = Len(log) + 1
                /\ log'[Len(log')].action = CONFIG.events.PAGE_VIEW
      ]_vars

\* a view at load, a popstate, and the second view record after it
C6_Witness ==
    /\ rev = "v13" /\ popstates = 1 /\ apiCalls = 0 /\ timers100 = 0
    /\ ViewRecords = 2 /\ ViewRequests = 2 /\ pageViewTracked

\* C7 (as claimed): when every storage call throws or storage is missing,
\* for every query string with a session_id parameter the load raises
\* nothing, init() reports stored = false with the parameter's value, the
\* process-wide identity is that value, and every later record is sent with
\* it as session_id.
C7_StorageFailureTolerated ==
    (phase # "start" /\ storageMode \in {"throws", "absent"} /\ HasParam) =>
        /\ ~raised
        /\ initResult = [initialized |-> TRUE, sessionId |-> FirstParamValue, stored |-> FALSE]
        /\ blizSessionId = FirstParamValue
        /\ \A k \in 1..Len(log) :
             \E i \in RequestsFor(log[k].timestamp) :
                 requests[i].payload.session_id = FirstParamValue

\* C8: whatever the outcome of a request (2xx, another status, status 0,
\* timeout, or an exception while the request is built), each record with a
\* resolvable identity has exactly one request and no record has more, nothing
\* is raised into the page, and the step in which a request settles adds no
\* request, changes no payload and leaves the identity, the storage and the
\* view latch as they were.
C8_SingleAttempt ==
    /\ [](/\ \A k \in 1..Len(log) :
               Cardinality(RequestsFor(log[k].timestamp)) = IF log[k].resolvable THEN 1 ELSE 0
          /\ Len(requests) <= Len(log)
          /\ phase = "ready" => ~raised)
    /\ [][ (\E i \in 1..Len(requests) :
               /\ requests[i].status = "pending"
               /\ i <= Len(requests') => requests'[i].status # "pending") =>
             /\ Len(requests') = Len(requests)
             /\ \A j \in 1..Len(requests) : requests'[j].payload = requests[j].payload
             /\ UNCHANGED << blizSessionId, stored, pageViewTracked, raised, log >>
         ]_vars

\* a request has settled and the next record got its own request; in a
\* browser where building a request throws, every attempt is still made once
C8_Witness ==
    /\ \E i, j \in 1..Len(requests) :
         /\ requests[i].status = "settled"
         /\ requests[j].payload.timestamp > requests[i].payload.timestamp
    /\ ~xhrThrows

\* the case of C9: the identity abc123 came from the URL, and the click
\* lands on an anchor whose text is non-empty, at most 100 characters long
\* and without surrounding whitespace
AnchorCase(el) ==
    /\ phase = "ready"
    /\ search = Sid \o << "=", "abc123" >>
    /\ el.tag = "a"
    /\ el.innerText # << >>
    /\ Len(el.innerText) <= LabelLimit
    /\ Trim(el.innerText) = el.innerText

\* the click on el adds exactly one request, with this action value
AnchorClickSends(el, action) ==
    /\ Len(requests') = Len(requests) + 1
    /\ SubSeq(requests', 1, Len(requests)) = requests
    /\ LET p == requests'[Len(requests')].payload IN
         /\ p.session_id = << "abc123" >>
         /\ p.session_id = blizSessionId
         /\ p.action = action
         /\ p.label = el.innerText
         /\ p.pathname = pathname

\* C9 (as claimed): such a click produces exactly one request whose payload
\* has session_id abc123, action "link_click", label T and the current path.
C9_LowercaseAction ==
    [][ \A el \in Elements(page) :
          (AnchorCase(el) /\ clicks' = clicks + 1 /\ Click(el)) =>
              AnchorClickSends(el, "link_click") ]_vars

\* C9 (amended): such a click produces exactly one request whose payload has
\* session_id abc123, action "LINK_CLICK", label T and the current path.
C9_LinkClick ==
    [][ \A el \in Elements(page) :
          (AnchorCase(el) /\ clicks' = clicks + 1 /\ Click(el)) =>
              AnchorClickSends(el, "LINK_CLICK") ]_vars

\* the request of a click on the Buy Now link with identity abc123
C9_Witness ==
    /\ search = Sid \o << "=", "abc123" >>
    /\ \E i \in 1..Len(requests) :
         requests[i].payload =
             [ session_id |-> << "abc123" >>, action |-> "LINK_CLICK", label |-> BuyNow,
               pathname |-> pathname, timestamp |-> requests[i].payload.timestamp ]

\* the number of characters of a string: a literal of the script is one
\* token of several characters
Extra(s, literal, n) == (n - 1) * Cardinality({ i \in 1..Len(s) : s[i] = literal })
JSLen(s) ==
    Len(s) + Extra(s, "N/A", 3) + Extra(s, "button", 6) + Extra(s, "link", 4)
           + Extra(s, "home", 4) + Extra(s, "form_submit", 11)

\* C10 (as claimed): the label of every request, from any listener, has at
\* most 100 characters, and a button whose text has 250 characters gets a
\* label of exactly 100 characters.
C10_LabelAtMost100 ==
    /\ [](\A i \in 1..Len(requests) : JSLen(requests[i].payload.label) <= LabelLimit)
    /\ [][ \A el \in Elements(page) :
             (Click(el) /\ phase = "ready" /\ el.tag = "button"
                /\ Len(el.innerText) = LongTextLen) =>
                 JSLen(log'[Len(log')].label) = LabelLimit ]_vars

\* C11 (as claimed): in v13 the view latch goes from unfired to fired only in
\* a step that hands a view record to the transport; a view trigger whose
\* record is dropped for want of an identity leaves the latch unfired.
C11_LatchOnlyOnEmission ==
    [][ (rev = "v13" /\ ~pageViewTracked /\ pageViewTracked') =>
            /\ Len(requests') = Len(requests) + 1
            /\ requests'[Len(requests')].payload.action = CONFIG.events.PAGE_VIEW
      ]_vars

\* the latch is reset in this step: it is fired before the step and either
\* unfired after it, or a view record was built during it (trackPageView
\* builds one only on an unfired latch)
LatchReset ==
    /\ rev = "v13" /\ phase = "ready"
    /\ pageViewTracked
    /\ (~pageViewTracked' \/ ViewRecords' > ViewRecords)

\* C12 (as claimed): in v13 the latch is reset only in a popstate step.
C12_OnlyPopstateResets ==
    [][ LatchReset => popstates' = popstates + 1 ]_vars

\* C12 (amended): in v13 the latch is reset only in a popstate step or in a
\* call of BlizTracker.trackPageView(), which resets it and fires it again at
\* once with a further view record; no click, submit, lifecycle signal,
\* timer, transport callback or change of the host page resets it.
C12_PopstateOrApiResets ==
    [][ LatchReset =>
          \/ popstates' = popstates + 1 /\ ~pageViewTracked' /\ log' = log
          \/ /\ apiCalls' = apiCalls + 1
             /\ pageViewTracked' /\ ViewRecords' = ViewRecords + 1
      ]_vars

\* BlizTracker.trackPageView() was called on a fired latch, with no popstate:
\* a second view record exists
C12_Witness ==
    /\ rev = "v13" /\ popstates = 0 /\ apiCalls = 1
    /\ ViewRecords = 2 /\ pageViewTracked

\* the place of the occurrence whose record request i carries
OccOf(i) == log[requests[i].payload.timestamp].occ

\* C13 (as claimed): the requests are in the order of the occurrences that
\* triggered them: a request issued earlier never belongs to a later
\* occurrence (the view record of a popstate belonging to that popstate).
C13_OccurrenceOrder ==
    \A i, j \in 1..Len(requests) : i < j => OccOf(i) <= OccOf(j)

\* C13 (amended): the requests are in the order in which the listeners built
\* their records, each issued when its record is built; a request is issued
\* before the request of an earlier occurrence only when that occurrence is
\* a popstate, whose view record is built when its 100 ms timeout expires.
C13_BuildOrder ==
    /\ \A i, j \in 1..Len(requests) :
         i < j => requests[i].payload.timestamp < requests[j].payload.timestamp
    /\ \A i, j \in 1..Len(requests) :
         (i < j /\ OccOf(i) > OccOf(j)) =>
             /\ OccOf(j) % 2 = 0
             /\ log[requests[j].payload.timestamp].action = CONFIG.events.PAGE_VIEW
    /\ Len(requests) <= Len(log)

\* a click that came after a popstate was sent before the view of that
\* popstate
C13_Witness ==
    \E i, j \in 1..Len(requests) :
        /\ i < j
        /\ OccOf(i) > OccOf(j)
        /\ requests[i].payload.action \in {CONFIG.events.LINK_CLICK,
                                           CONFIG.events.BUTTON_CLICK}

\* C14 (as claimed): in v13, after a popstate that followed a view, while
\* the 100 ms timeout of the popstate is pending, the load,
\* shopify:section:load and page:loaded listeners and the 500 ms fallback
\* timeout build no view record.
C14_OnlyDelayedTimer ==
    [][ (rev = "v13" /\ phase = "ready" /\ ViewRecords >= 1
           /\ timers100 > 0 /\ timers100' = timers100
           /\ (WindowLoad \/ ShopifySectionLoad \/ PageLoaded \/ Timeout500)) =>
            ViewRecords' = ViewRecords ]_vars

\* C15: in v13, once the script has run with an identity resolved by init(),
\* whatever document.readyState was and whichever lifecycle events fire or
\* not, a view request is eventually handed to the transport (the 500 ms
\* timeout being fair), and without popstate or BlizTracker.trackPageView()
\* there is never more than one view record or view request.
C15_ViewEventuallySent ==
    /\ (rev = "v13" /\ phase = "ready" /\ Truthy(blizSessionId)) ~> (ViewRequests >= 1)
    /\ []((rev = "v13" /\ popstates = 0 /\ apiCalls = 0) =>
              (ViewRecords <= 1 /\ ViewRequests <= 1))

\* no lifecycle event has fired, the fallback timeout has expired and the
\* view was sent
C15_Witness ==
    /\ rev = "v13" /\ phase = "ready" /\ Truthy(blizSessionId)
    /\ readyState = "loading" /\ ~timer500
    /\ popstates = 0 /\ apiCalls = 0
    /\ ViewRequests = 1

\* C16 (as claimed): for every query string the script load raises nothing:
\* init() returns and the listeners are registered.
C16_LoadNeverRaises ==
    phase # "start" => (phase = "ready" /\ ~raised /\ initResult.initialized)

\* the action kind of a click on an element of this tag
KindOf(tag) ==
    IF tag = "button" THEN CONFIG.events.BUTTON_CLICK ELSE CONFIG.events.LINK_CLICK

\* C17: once the listeners are registered, a click on a button or an anchor
\* builds exactly one record, of kind BUTTON_CLICK for a button and
\* LINK_CLICK for an anchor, and hands it to processEvent (one request when
\* an identity is resolvable, none otherwise); a click on any other element
\* builds no record and changes nothing of the script's state.
C17_ClickKinds ==
    [][ \A el \in Elements(page) :
          (phase = "ready" /\ clicks' = clicks + 1 /\ Click(el)) =>
              IF el.tag \in {"button", "a"}
              THEN /\ Len(log') = Len(log) + 1
                   /\ SubSeq(log', 1, Len(log)) = log
                   /\ log'[Len(log')].action = KindOf(el.tag)
                   /\ Len(requests') = Len(requests) + (IF Resolvable(Cur) THEN 1 ELSE 0)
                   /\ SubSeq(requests', 1, Len(requests)) = requests
                   /\ Resolvable(Cur) =>
                        /\ requests'[Len(requests')].payload.action = KindOf(el.tag)
                        /\ requests'[Len(requests')].payload.timestamp
                               = log'[Len(log')].timestamp
              ELSE UNCHANGED << blizSessionId, stored, pageViewTracked, timer500,
                                timers100, requests, log, raised >>
      ]_vars

\* two clicks, one on the button and one on an element that is neither a
\* button nor an anchor: one record
C17_Witness ==
    /\ phase = "ready" /\ clicks = 2
    /\ Cardinality(RecordsOf(CONFIG.events.BUTTON_CLICK)) = 1
    /\ RecordsOf(CONFIG.events.LINK_CLICK) = { }
    /\ RecordsOf(CONFIG.events.FORM_SUBMIT) = { }
    /\ Cardinality(RequestsOf(CONFIG.events.BUTTON_CLICK)) = 1

\* C18: after the load the process-wide identity is what init() left (the
\* identifier it returned, when it has one) and no later step changes it;
\* the stored identifier is what init() left until another page of the
\* origin stores its own, and then that one; and once the identity is X
\* every request carries session_id X, whatever the storage holds.
C18_IdentitySetOnce ==
    /\ phase = "crashed" => blizSessionId = UNDEFINED
    /\ phase = "ready" =>
         blizSessionId = IF Truthy(initResult.sessionId) THEN initResult.sessionId
                         ELSE UNDEFINED
    /\ (phase # "start" /\ otherStores = 0) =>
         stored = IF initResult.stored THEN initResult.sessionId ELSE storedAtLoad
    /\ otherStores > 0 => stored = << "xyz789" >>
    /\ Truthy(blizSessionId) =>
         \A i \in 1..Len(requests) : requests[i].payload.session_id = blizSessionId

\* another page has stored a different identifier, and the requests of this
\* page carry the identity of the load
C18_Witness ==
    /\ Truthy(blizSessionId) /\ otherStores = 1 /\ clicks = 1
    /\ stored # blizSessionId /\ Truthy(getStoredSessionId)
    /\ \E i \in 1..Len(requests) :
         /\ requests[i].payload.action = CONFIG.events.LINK_CLICK
         /\ requests[i].payload.session_id = blizSessionId

\* C19 (as claimed): every request that leaves the browser carries
\* Authorization: Bearer <key> exactly when a key was configured at script
\* load, and the key is the one of the load.
C19_KeyReadOnce ==
    \A i \in 1..Len(requests) :
        requests[i].status # "exception" =>
            requests[i].authorization = IF Truthy(keyAtLoad)
                                        THEN << "Bearer " >> \o keyAtLoad ELSE NULL

\* C20: in v13 the number of view records, and so of view requests, is at
\* most 1 plus the number of popstates and of BlizTracker.trackPageView()
\* calls so far.
C20_ViewBound ==
    rev = "v13" =>
        /\ ViewRequests <= ViewRecords
        /\ ViewRecords <= 1 + popstates + apiCalls

\* a view at load, one for a call of BlizTracker.trackPageView() and one for
\* a popstate: the bound is met
C20_Witness ==
    /\ rev = "v13" /\ popstates >= 1 /\ apiCalls >= 1
    /\ ViewRequests = 1 + popstates + apiCalls

\* the state after processEvent has processed a record of the given action
\* kind in the current state
Processed(action) ==
    processEvent(Cur, createEvent(Cur, action, << "probe" >>, UNDEFINED), xhrThrows)

EventKinds ==
    { CONFIG.events.PAGE_VIEW, CONFIG.events.LINK_CLICK,
      CONFIG.events.BUTTON_CLICK, CONFIG.events.FORM_SUBMIT }

\* C21: in every state in which window.BlizTracker exists, isActive() is true
\* exactly when a record processed in that state is handed to the transport
\* (one more request, nothing else when it is false), and the request made
\* for it carries the value getSessionId() returns in that state, which is
\* the process-wide identity if set and the stored value otherwise.
C21_ApiMatchesGate ==
    phase = "ready" =>
        /\ \A action \in EventKinds :
             LET m == Processed(action) IN
             IF isActive(Cur)
             THEN /\ Len(m.requests) = Len(requests) + 1
                  /\ SubSeq(m.requests, 1, Len(requests)) = requests
                  /\ m.requests[Len(m.requests)].payload.session_id = getSessionId(Cur)
                  /\ m.requests[Len(m.requests)].payload.action = action
             ELSE m.requests = requests
        /\ getSessionId(Cur) = IF blizSessionId \notin Falsy THEN blizSessionId
                               ELSE getStoredSessionId

\* no process-wide identity, a view was dropped at the load, another page
\* then stored an identifier and a later record was sent with it
C21_Witness ==
    /\ phase = "ready"
    /\ blizSessionId \in Falsy
    /\ isActive(Cur)
    /\ \E k \in 1..Len(log) : ~log[k].resolvable
    /\ \E i \in 1..Len(requests) : requests[i].payload.session_id = getSessionId(Cur)

\* the identifier the URL supplies: the value of its first session_id
\* parameter, empty without the parameter
UrlIdentifier == IF HasParam THEN FirstParamValue ELSE << >>

\* C22 (as claimed): storage is written only by init(), and only when the URL
\* supplies a non-empty identifier.  storedAtLoad being what the earlier
\* loads of the origin left in storage (the identifier of the most recent
\* load that wrote one, nothing when there was none), after this load and
\* until another page loads, storage holds the identifier of this URL when
\* it supplied a non-empty one and init() reported the write as done, and
\* what the earlier loads left otherwise; no later step of this page
\* changes it.
C22_StoredIsLastSupplied ==
    (phase # "start" /\ otherStores = 0) =>
        stored = IF UrlIdentifier # << >> /\ initResult.stored THEN UrlIdentifier
                 ELSE storedAtLoad

====
